---------------------------- MODULE Spec2Model ----------------------------
(***************************************************************************)
(* Model of wayBackAnalyzer.py: the Wayback snapshot fetcher, the link and *)
(* file extractors, the bounded-depth crawler, the report writer and the   *)
(* orchestrator (main).                                                    *)
(*                                                                         *)
(* Strings are TLA+ strings; TLC evaluates Len, SubSeq and \o on them, so  *)
(* substring tests, suffix tests and URL resolution are computed character *)
(* by character as the Python code computes them.                          *)
(*                                                                         *)
(* An HTML document is modelled by what BeautifulSoup's html.parser makes  *)
(* of it: the sequence of its elements, each a record [tag, href, src]     *)
(* where an attribute the element does not carry is None.                  *)
(***************************************************************************)
EXTENDS Integers, Sequences, FiniteSets, TLC

None == "<None>"

(***************************************************************************)
(* Bounds of the model.                                                    *)
(***************************************************************************)
MaxDepth == 3
MaxSnapshotsArg == 2
MaxArchive == 2
MaxElems == 2
MaxItems == 2

(***************************************************************************)
(* str helpers                                                             *)
(***************************************************************************)
\* Python: kw in s
Contains(s, kw) ==
  \E i \in 1..(Len(s) - Len(kw) + 1) : SubSeq(s, i, i + Len(kw) - 1) = kw

\* Python: s.endswith(suf)
EndsWith(s, suf) ==
  /\ Len(s) >= Len(suf)
  /\ SubSeq(s, Len(s) - Len(suf) + 1, Len(s)) = suf

\* Python: s.startswith(pre)
StartsWith(s, pre) ==
  /\ Len(s) >= Len(pre)
  /\ SubSeq(s, 1, Len(pre)) = pre

\* Python: s.find(c) + 1 for a one-character c (0 when absent)
IndexOf(s, c) ==
  IF \E i \in 1..Len(s) : SubSeq(s, i, i) = c
  THEN CHOOSE i \in 1..Len(s) :
         /\ SubSeq(s, i, i) = c
         /\ \A j \in 1..(i - 1) : SubSeq(s, j, j) # c
  ELSE 0

\* Python: s.rfind(c) + 1 for a one-character c (0 when absent)
LastIndexOf(s, c) ==
  IF \E i \in 1..Len(s) : SubSeq(s, i, i) = c
  THEN CHOOSE i \in 1..Len(s) :
         /\ SubSeq(s, i, i) = c
         /\ \A j \in (i + 1)..Len(s) : SubSeq(s, j, j) # c
  ELSE 0

\* Python: s.rstrip("/")
RECURSIVE RStripSlash(_)
RStripSlash(s) ==
  IF EndsWith(s, "/") /\ Len(s) > 0
  THEN RStripSlash(SubSeq(s, 1, Len(s) - 1))
  ELSE s

(***************************************************************************)
(* urllib.parse, for the URL references of the model: no query, params or  *)
(* dot segments in a reference that is resolved; a '?' or '#' only ends    *)
(* the path.                                                               *)
(***************************************************************************)
SchemeChars ==
  {"a","b","c","d","e","f","g","h","i","j","k","l","m","n","o","p","q","r",
   "s","t","u","v","w","x","y","z","0","1","2","3","4","5","6","7","8","9",
   "+","-","."}

\* urlparse(url).scheme: the text before the first ':' when it is a scheme
UrlScheme(url) ==
  LET i == IndexOf(url, ":") IN
  IF /\ i > 1
     /\ \A j \in 1..(i - 1) : SubSeq(url, j, j) \in SchemeChars
  THEN SubSeq(url, 1, i - 1)
  ELSE ""

\* what follows "<scheme>:" in url
AfterScheme(url) ==
  IF UrlScheme(url) = "" THEN url
  ELSE SubSeq(url, Len(UrlScheme(url)) + 2, Len(url))

\* the first position of '/', '?' or '#' in s, Len(s) + 1 when there is none
DelimPos(s, delims) ==
  IF \E i \in 1..Len(s) : SubSeq(s, i, i) \in delims
  THEN CHOOSE i \in 1..Len(s) :
         /\ SubSeq(s, i, i) \in delims
         /\ \A j \in 1..(i - 1) : SubSeq(s, j, j) \notin delims
  ELSE Len(s) + 1

\* urlparse(url).netloc
UrlNetloc(url) ==
  LET r == AfterScheme(url) IN
  IF StartsWith(r, "//")
  THEN LET h == SubSeq(r, 3, Len(r)) IN SubSeq(h, 1, DelimPos(h, {"/", "?", "#"}) - 1)
  ELSE ""

\* urlparse(url).path
UrlPath(url) ==
  LET r == AfterScheme(url)
      p == IF StartsWith(r, "//")
           THEN LET h == SubSeq(r, 3, Len(r)) IN
                SubSeq(h, DelimPos(h, {"/", "?", "#"}), Len(h))
           ELSE r
  IN SubSeq(p, 1, DelimPos(p, {"?", "#"}) - 1)

\* the directory of a base path: everything up to its last '/'
BaseDir(bpath) ==
  IF LastIndexOf(bpath, "/") = 0 THEN "/"
  ELSE SubSeq(bpath, 1, LastIndexOf(bpath, "/"))

\* urljoin(base, url)
UrlJoin(base, url) ==
  IF base = "" THEN url
  ELSE IF url = "" THEN base
  ELSE IF UrlScheme(url) # "" /\ UrlScheme(url) # UrlScheme(base) THEN url
  ELSE IF UrlScheme(base) \notin {"http", "https", "ftp"} THEN url
  ELSE LET r == AfterScheme(url) IN
       IF StartsWith(r, "//")
       THEN UrlScheme(base) \o ":" \o r
       ELSE IF StartsWith(r, "/")
       THEN UrlScheme(base) \o "://" \o UrlNetloc(base) \o r
       ELSE UrlScheme(base) \o "://" \o UrlNetloc(base)
              \o BaseDir(UrlPath(base)) \o r

\* is_valid_http_url(url)
is_valid_http_url(url) == UrlScheme(url) \in {"http", "https"}

\* get_domain_name(url)
get_domain_name(url) ==
  LET domain == UrlNetloc(url) IN
  IF StartsWith(domain, "www.") THEN SubSeq(domain, 5, Len(domain)) ELSE domain

(***************************************************************************)
(* Link/file extractors.  html is the sequence of elements of the parsed   *)
(* document.                                                               *)
(***************************************************************************)
\* soup.find_all("a", href=True): the a elements that carry an href
LinkTagMatches(e) == e.tag = "a" /\ e.href # None

\* extract_links(base_url, html_content)
extract_links(base_url, html) ==
  { UrlJoin(base_url, html[i].href) :
      i \in { j \in 1..Len(html) :
                /\ LinkTagMatches(html[j])
                /\ is_valid_http_url(UrlJoin(base_url, html[j].href)) } }

FileTags == {"a", "img", "script", "link"}

FileExts == {".pdf", ".doc", ".zip", ".jpg", ".png", ".js", ".css", ".php", "="}

\* soup.find_all([...], {"href": True, "src": True}): the attrs dictionary
\* is a conjunction, so an element matches when it carries href AND src
FileTagMatches(e) == e.tag \in FileTags /\ e.href # None /\ e.src # None

\* tag.get("href") or tag.get("src"): an empty href falls through to src
HrefOrSrc(e) ==
  IF e.href # None /\ e.href # "" THEN e.href ELSE e.src

\* the test of lines 54-57 on a resolved URL
IsFileUrl(file_url) ==
  /\ is_valid_http_url(file_url)
  /\ \E ext \in FileExts : EndsWith(UrlPath(file_url), ext)

\* extract_files(base_url, html_content)
extract_files(base_url, html) ==
  { UrlJoin(base_url, HrefOrSrc(html[i])) :
      i \in { j \in 1..Len(html) :
                /\ FileTagMatches(html[j])
                /\ HrefOrSrc(html[j]) \notin {None, ""}
                /\ IsFileUrl(UrlJoin(base_url, HrefOrSrc(html[j]))) } }

(***************************************************************************)
(* Report writer.                                                          *)
(***************************************************************************)
\* Python truth value of an optional list argument: None and [] are false
Truthy(filter) == filter # None /\ filter # <<>>

\* any(keyword in line for keyword in keywords)
AnyKeywordIn(line, keywords) ==
  \E k \in 1..Len(keywords) : Contains(line, keywords[k])

\* line 102: the filter_in pass
ApplyFilterIn(data, filter_in) ==
  IF Truthy(filter_in)
  THEN SelectSeq(data, LAMBDA line : AnyKeywordIn(line, filter_in))
  ELSE data

\* the filter_out pass with its "not" left out
ApplyFilterOutKeeps(data, filter_out) ==
  IF Truthy(filter_out)
  THEN SelectSeq(data, LAMBDA line : AnyKeywordIn(line, filter_out))
  ELSE data

\* line 106: the filter_out pass
ApplyFilterOut(data, filter_out) ==
  IF Truthy(filter_out)
  THEN SelectSeq(data, LAMBDA line : ~AnyKeywordIn(line, filter_out))
  ELSE data

\* "\n".join(lines)
RECURSIVE JoinLines(_)
JoinLines(lines) ==
  IF Len(lines) = 0 THEN ""
  ELSE IF Len(lines) = 1 THEN lines[1]
  ELSE lines[1] \o "\n" \o JoinLines(Tail(lines))

\* the text save_to_file writes for data (lines 98-110)
SavedText(data, filter_in, filter_out) ==
  JoinLines(ApplyFilterOut(ApplyFilterIn(data, filter_in), filter_out))

\* os.path.dirname(filename)
Dirname(filename) ==
  IF LastIndexOf(filename, "/") = 0 THEN ""
  ELSE SubSeq(filename, 1, LastIndexOf(filename, "/") - 1)

\* os.path.join(output_dir, name)
PathJoin(dir, name) == IF dir = "" THEN name ELSE dir \o "/" \o name

\* text.split("\n") of a written file, as the set of its lines
RECURSIVE LinesOf(_)
LinesOf(text) ==
  IF IndexOf(text, "\n") = 0 THEN {text}
  ELSE {SubSeq(text, 1, IndexOf(text, "\n") - 1)}
         \cup LinesOf(SubSeq(text, IndexOf(text, "\n") + 1, Len(text)))

\* the orders in which a Python set can be iterated
Orderings(set) ==
  { f \in [1..Cardinality(set) -> set] :
      \A i, j \in 1..Cardinality(set) : f[i] = f[j] => i = j }

(***************************************************************************)
(* The environment: the pages the web can serve and the archive's answers. *)
(***************************************************************************)
Elem(t, h, s) == [tag |-> t, href |-> h, src |-> s]

\* a page with two absolute anchors and an image
PageAbs ==
  << Elem("a", "https://a.com/1", None),
     Elem("a", "https://fb.com/2", None),
     Elem("img", None, "https://a.com/img.png") >>

\* a page with a root-relative anchor, a link back to the seed, a
\* non-http anchor and a stylesheet link carrying both href and src
PageRel ==
  << Elem("a", "/1", None),
     Elem("a", "https://a.com", None),
     Elem("a", "mailto:me", None),
     Elem("link", "/s.css", "s") >>

PageEmpty == << >>

Pages == {PageAbs, PageRel, PageEmpty}

SeedArgs == {"https://a.com", "https://a.com/"}

VARIABLES
  pc,             \* the statement the program is at
  base_url,       \* main: args.url.rstrip("/"); crawl_website: its parameter
  max_depth,      \* args.max_depth
  max_snapshots,  \* args.max_snapshots
  archive,        \* the sequence cdx.snapshots() would yield (environment)
  yielded,        \* how many items of archive the iterator has yielded
  snapshots,      \* get_wayback_snapshots: snapshots
  raised,         \* the exception that was raised last, None when none was
  fs,             \* the file system: path -> text, None when absent
  dirs,           \* the directories that exist
  written,        \* the paths written so far, in order (history)
  visited,        \* crawl_website: visited
  to_visit,       \* crawl_website: to_visit
  todo,           \* the URLs of to_visit the inner for loop has yet to take
  next_to_visit,  \* crawl_website: next_to_visit
  all_links,      \* crawl_website / main: all_links
  all_files,      \* crawl_website / main: all_files
  depth,          \* the number of depth iterations started
  url,            \* the inner loop's url, None outside a fetch
  resp,           \* the outcome of the last requests.get
  body,           \* the text each visited URL was served (history)
  level,          \* the depth iteration each visited URL was fetched in (history)
  html,           \* extractor under test: the document
  found,          \* extractor under test: the returned set, None before the call
  data,           \* save_to_file: data
  filter_in,      \* save_to_file: filter_in
  filter_out      \* save_to_file: filter_out

mainVars == <<base_url, max_depth, max_snapshots>>
snapVars == <<archive, yielded, snapshots>>
fileVars == <<fs, dirs, written>>
crawlVars == <<visited, to_visit, todo, next_to_visit, all_links, all_files,
               depth, url, resp, body, level>>
pureVars == <<html, found, data, filter_in, filter_out>>
vars == <<pc, raised, mainVars, snapVars, fileVars, crawlVars, pureVars>>

EmptyFn == [x \in {} |-> None]

\* the locals of crawl_website before the call and after the return
NoCrawlLocals ==
  /\ visited = {} /\ to_visit = {} /\ todo = {} /\ next_to_visit = {}
  /\ depth = 0 /\ url = None /\ resp = None
  /\ body = EmptyFn /\ level = EmptyFn

(***************************************************************************)
(* crawl_website(base_url, max_depth)                                      *)
(***************************************************************************)
\* lines 65-68: the locals are initialised
CrawlEnter ==
  /\ pc = "crawl_call"
  /\ visited' = {}
  /\ to_visit' = {base_url}
  /\ all_links' = {}
  /\ all_files' = {}
  /\ depth' = 0
  /\ pc' = "depth_loop"
  /\ UNCHANGED <<todo, next_to_visit, url, resp, body, level>>
  /\ UNCHANGED <<raised, mainVars, snapVars, fileVars, pureVars>>

\* lines 70-73: range(max_depth) yields another depth
DepthStart ==
  /\ pc = "depth_loop"
  /\ depth < max_depth
  /\ depth' = depth + 1
  /\ next_to_visit' = {}
  /\ todo' = to_visit
  /\ pc' = "url_loop"
  /\ UNCHANGED <<visited, to_visit, all_links, all_files, url, resp, body, level>>
  /\ UNCHANGED <<raised, mainVars, snapVars, fileVars, pureVars>>

\* lines 74-75: the URL the loop takes is in visited
SkipVisited ==
  /\ pc = "url_loop"
  /\ \E u \in todo :
       /\ u \in visited
       /\ todo' = todo \ {u}
  /\ UNCHANGED <<pc, visited, to_visit, next_to_visit, all_links, all_files,
                 depth, url, resp, body, level>>
  /\ UNCHANGED <<raised, mainVars, snapVars, fileVars, pureVars>>

\* line 74 left out: every URL of the frontier is fetched
MayFetchAlways(u) == TRUE

\* the test of line 74 that lets a URL through to requests.get
MayFetch(u) == u \notin visited

\* line 77: requests.get(url, timeout=10) is issued
Fetch ==
  /\ pc = "url_loop"
  /\ \E u \in todo :
       /\ MayFetch(u)
       /\ url' = u
       /\ todo' = todo \ {u}
  /\ pc' = "fetching"
  /\ UNCHANGED <<visited, to_visit, next_to_visit, all_links, all_files,
                 depth, resp, body, level>>
  /\ UNCHANGED <<raised, mainVars, snapVars, fileVars, pureVars>>

\* lines 78-84: the response has status 200
FetchOK ==
  /\ pc = "fetching"
  /\ \E text \in Pages :
       LET links == extract_links(url, text)
           files == extract_files(url, text)
       IN /\ visited' = visited \cup {url}
          /\ all_links' = all_links \cup links
          /\ all_files' = all_files \cup files
          /\ next_to_visit' = next_to_visit \cup (links \ visited')
          /\ body' = [u \in visited' |-> IF u = url THEN text ELSE body[u]]
          /\ level' = [u \in visited' |-> IF u = url THEN depth ELSE level[u]]
  /\ resp' = "200"
  /\ url' = None
  /\ pc' = "url_loop"
  /\ UNCHANGED <<to_visit, todo, depth>>
  /\ UNCHANGED <<raised, mainVars, snapVars, fileVars, pureVars>>

\* visited.add(url) moved above the status test
FailedFetchMarksVisited ==
  /\ visited' = visited \cup {url}
  /\ body' = [u \in visited' |-> IF u = url THEN PageEmpty ELSE body[u]]
  /\ level' = [u \in visited' |-> IF u = url THEN depth ELSE level[u]]
  /\ UNCHANGED <<all_links, all_files, next_to_visit>>

\* what a fetch that failed does to the sets of the crawl: nothing
FailedFetchEffect ==
  UNCHANGED <<visited, all_links, all_files, next_to_visit, body, level>>

\* line 78: the response has a status other than 200
FetchNot200 ==
  /\ pc = "fetching"
  /\ resp' = "not200"
  /\ url' = None
  /\ pc' = "url_loop"
  /\ FailedFetchEffect
  /\ UNCHANGED <<to_visit, todo, depth>>
  /\ UNCHANGED <<raised, mainVars, snapVars, fileVars, pureVars>>

\* lines 85-86: requests.get raised a RequestException, which is printed
FetchError ==
  /\ pc = "fetching"
  /\ resp' = "RequestException"
  /\ url' = None
  /\ pc' = "url_loop"
  /\ FailedFetchEffect
  /\ UNCHANGED <<to_visit, todo, depth>>
  /\ UNCHANGED <<raised, mainVars, snapVars, fileVars, pureVars>>

\* to_visit.update(next_to_visit) in place of the assignment
NextFrontierMerged == to_visit \cup next_to_visit

\* line 87: the frontier of the next depth
NextFrontier == next_to_visit

\* line 87: the inner loop is over
DepthEnd ==
  /\ pc = "url_loop"
  /\ todo = {}
  /\ to_visit' = NextFrontier
  /\ pc' = "depth_loop"
  /\ UNCHANGED <<visited, todo, next_to_visit, all_links, all_files, depth,
                 url, resp, body, level>>
  /\ UNCHANGED <<raised, mainVars, snapVars, fileVars, pureVars>>

\* an early exit once the frontier is empty
LoopExhaustedOrEmpty == depth >= max_depth \/ to_visit = {}

\* range(max_depth) is exhausted
LoopExhausted == depth >= max_depth

\* line 89: return all_links, all_files
CrawlReturn ==
  /\ pc = "depth_loop"
  /\ LoopExhausted
  /\ pc' = "crawl_return"
  /\ UNCHANGED <<raised, mainVars, snapVars, fileVars, crawlVars, pureVars>>

CrawlStep ==
  \/ CrawlEnter
  \/ DepthStart
  \/ SkipVisited
  \/ Fetch
  \/ FetchOK
  \/ FetchNot200
  \/ FetchError
  \/ DepthEnd
  \/ CrawlReturn

\* crawl_website called on its own
InitCrawl ==
  /\ pc = "crawl_call"
  /\ base_url \in {RStripSlash(u) : u \in SeedArgs}
  /\ max_depth \in 0..MaxDepth
  /\ max_snapshots = 0
  /\ archive = << >> /\ yielded = 0 /\ snapshots = << >>
  /\ raised = None
  /\ fs = EmptyFn /\ dirs = {} /\ written = << >>
  /\ NoCrawlLocals
  /\ all_links = {} /\ all_files = {}
  /\ html = << >> /\ found = None
  /\ data = << >> /\ filter_in = None /\ filter_out = None

SpecCrawl == InitCrawl /\ [][CrawlStep]_vars

\* the interpreter runs the next statement whenever there is one
FairSpecCrawl == SpecCrawl /\ WF_vars(CrawlStep)

(***************************************************************************)
(* get_wayback_snapshots(url, max_snapshots)                               *)
(***************************************************************************)
Snap1 == "https://web.archive.org/web/2001/https://a.com"
Snap2 == "https://web.archive.org/web/2002/https://a.com"
Snap3 == "https://web.archive.org/web/2003/https://a.com"

ArchiveUrls == {Snap1, Snap2, Snap3}

\* the result sequences the archive may hold: no capture listed twice
Archives ==
  UNION { { f \in [1..n -> ArchiveUrls] : \A i, j \in 1..n : f[i] = f[j] => i = j }
          : n \in 0..MaxArchive }

\* lines 12-14: the CDX object is created, then snapshots = []
SnapCreate ==
  /\ pc = "snap_call"
  /\ snapshots' = << >>
  /\ yielded' = 0
  /\ pc' = "snap_iter"
  /\ UNCHANGED <<raised, archive, mainVars, fileVars, crawlVars, pureVars>>

\* line 13 raises: it stands before the try, so nothing catches it
SnapCreateRaises ==
  /\ pc = "snap_call"
  /\ raised' = "ArchiveError"
  /\ pc' = "crashed"
  /\ UNCHANGED <<mainVars, snapVars, fileVars, crawlVars, pureVars>>

\* line 18: the test that ends the loop after an append
HasEnough(collected, limit) == Len(collected) >= limit

\* lines 16-19: the iterator yields an item; it is appended, then tested
SnapNext ==
  /\ pc = "snap_iter"
  /\ yielded < Len(archive)
  /\ yielded' = yielded + 1
  /\ snapshots' = Append(snapshots, archive[yielded + 1])
  /\ pc' = IF HasEnough(snapshots', max_snapshots) THEN "snap_return" ELSE "snap_iter"
  /\ UNCHANGED <<raised, archive, mainVars, fileVars, crawlVars, pureVars>>

\* line 16: the iterator is exhausted
SnapExhausted ==
  /\ pc = "snap_iter"
  /\ yielded = Len(archive)
  /\ pc' = "snap_return"
  /\ UNCHANGED <<raised, mainVars, snapVars, fileVars, crawlVars, pureVars>>

\* lines 20-21: cdx.snapshots() or its iteration raises inside the try;
\* the exception is printed and the function returns what it has
SnapIterRaises ==
  /\ pc = "snap_iter"
  /\ raised' = "ArchiveErrorCaught"
  /\ pc' = "snap_return"
  /\ UNCHANGED <<mainVars, snapVars, fileVars, crawlVars, pureVars>>

SnapStep ==
  \/ SnapCreate
  \/ SnapCreateRaises
  \/ SnapNext
  \/ SnapExhausted
  \/ SnapIterRaises

\* get_wayback_snapshots called on its own
InitSnap ==
  /\ pc = "snap_call"
  /\ base_url \in {RStripSlash(u) : u \in SeedArgs}
  /\ max_depth = 0
  /\ max_snapshots \in 0..MaxSnapshotsArg
  /\ archive \in Archives
  /\ yielded = 0 /\ snapshots = << >>
  /\ raised = None
  /\ fs = EmptyFn /\ dirs = {} /\ written = << >>
  /\ NoCrawlLocals
  /\ all_links = {} /\ all_files = {}
  /\ html = << >> /\ found = None
  /\ data = << >> /\ filter_in = None /\ filter_out = None

SpecSnap == InitSnap /\ [][SnapStep]_vars

(***************************************************************************)
(* save_to_file(filename, data, filter_in, filter_out)                     *)
(***************************************************************************)
\* lines 97-110: the directory is made, the file is opened for writing
\* (truncated) and the filtered lines are written
WriteFile(filename, lines, fin, fout) ==
  /\ dirs' = dirs \cup {Dirname(filename)}
  /\ fs' = [p \in DOMAIN fs \cup {filename} |->
              IF p = filename THEN SavedText(lines, fin, fout) ELSE fs[p]]
  /\ written' = Append(written, filename)

\* os.makedirs or open raises OSError: save_to_file does not catch it
WriteRaises ==
  /\ raised' = "OSError"
  /\ pc' = "crashed"
  /\ UNCHANGED fileVars

SaveItems == {"http://a.com/x", "http://b.org/y", "http://c.net/z",
              "http://facebook.com/p", "http://t.org/twitter"}

SaveFilters == {None, << >>, <<".com">>, <<".com", ".org">>,
                <<"facebook", "twitter">>}

SavePath == "a.com/links.txt"

BoundedSeqs(set, n) == UNION { [1..k -> set] : k \in 0..n }

\* save_to_file called on its own, over a file that may exist already
InitSave ==
  /\ pc = "save_call"
  /\ base_url \in {RStripSlash(u) : u \in SeedArgs}
  /\ max_depth = 0 /\ max_snapshots = 0
  /\ archive = << >> /\ yielded = 0 /\ snapshots = << >>
  /\ raised = None
  /\ \/ fs = EmptyFn /\ dirs = {}
     \/ fs = [p \in {SavePath} |-> "http://old.com/1\nhttp://old.com/2"]
          /\ dirs = {Dirname(SavePath)}
  /\ written = << >>
  /\ NoCrawlLocals
  /\ all_links = {} /\ all_files = {}
  /\ html = << >> /\ found = None
  /\ data \in BoundedSeqs(SaveItems, MaxItems)
  /\ filter_in \in SaveFilters
  /\ filter_out \in SaveFilters

SaveCall ==
  /\ pc = "save_call"
  /\ WriteFile(SavePath, data, filter_in, filter_out)
  /\ pc' = "saved"
  /\ UNCHANGED <<raised, mainVars, snapVars, crawlVars, pureVars>>

SaveCallRaises ==
  /\ pc = "save_call"
  /\ WriteRaises
  /\ UNCHANGED <<mainVars, snapVars, crawlVars, pureVars>>

SaveStep == SaveCall \/ SaveCallRaises

SpecSave == InitSave /\ [][SaveStep]_vars

(***************************************************************************)
(* extract_files(base_url, html_content) on its own                        *)
(***************************************************************************)
ElemTags == {"a", "img", "script", "link", "div"}
ElemHrefs == {None, "", "/f.pdf", "https://a.com/p", "ftp://a.com/z.zip"}
ElemSrcs == {None, "/s.js", "i.png"}

Elements == { Elem(t, h, s) : t \in ElemTags, h \in ElemHrefs, s \in ElemSrcs }

ExtractBases == {"https://a.com", "http://ex.com/a/b"}

InitExtract ==
  /\ pc = "parse"
  /\ base_url \in ExtractBases
  /\ max_depth = 0 /\ max_snapshots = 0
  /\ archive = << >> /\ yielded = 0 /\ snapshots = << >>
  /\ raised = None
  /\ fs = EmptyFn /\ dirs = {} /\ written = << >>
  /\ NoCrawlLocals
  /\ all_links = {} /\ all_files = {}
  /\ html = << >> /\ found = None
  /\ data = << >> /\ filter_in = None /\ filter_out = None

\* line 47: the parser meets another element of the document
ParseElement ==
  /\ pc = "parse"
  /\ Len(html) < MaxElems
  /\ \E e \in Elements : html' = Append(html, e)
  /\ UNCHANGED <<pc, raised, found, data, filter_in, filter_out,
                 mainVars, snapVars, fileVars, crawlVars>>

\* lines 48-59
ExtractFilesCall ==
  /\ pc = "parse"
  /\ found' = extract_files(base_url, html)
  /\ pc' = "extracted"
  /\ UNCHANGED <<raised, html, data, filter_in, filter_out,
                 mainVars, snapVars, fileVars, crawlVars>>

ExtractStep == ParseElement \/ ExtractFilesCall

SpecExtract == InitExtract /\ [][ExtractStep]_vars

(***************************************************************************)
(* main()                                                                  *)
(***************************************************************************)
OutputDir == get_domain_name(base_url)

SnapshotsPath == PathJoin(OutputDir, "wayback_snapshots.txt")
LinksPath == PathJoin(OutputDir, "links.txt")
FilesPath == PathJoin(OutputDir, "files.txt")

filter_in_keywords == <<".com", ".org">>
filter_out_keywords == <<"facebook", "twitter">>

\* lines 125-136: the arguments are parsed; get_wayback_snapshots is called
Init ==
  /\ pc = "snap_call"
  /\ base_url \in {RStripSlash(u) : u \in SeedArgs}
  /\ max_depth \in 0..MaxDepth
  /\ max_snapshots \in 0..MaxSnapshotsArg
  /\ archive \in Archives
  /\ yielded = 0 /\ snapshots = << >>
  /\ raised = None
  /\ fs = EmptyFn /\ dirs = {} /\ written = << >>
  /\ NoCrawlLocals
  /\ all_links = {} /\ all_files = {}
  /\ html = << >> /\ found = None
  /\ data = << >> /\ filter_in = None /\ filter_out = None

\* line 137, then line 140 calls crawl_website
SaveSnapshots ==
  /\ pc = "snap_return"
  /\ WriteFile(SnapshotsPath, snapshots, None, None)
  /\ pc' = "crawl_call"
  /\ UNCHANGED <<raised, mainVars, snapVars, crawlVars, pureVars>>

\* lines 143-147: all_links is a set, written in the order it iterates
SaveLinks ==
  /\ pc = "crawl_return"
  /\ \E lines \in Orderings(all_links) :
       WriteFile(LinksPath, lines, filter_in_keywords, filter_out_keywords)
  /\ pc' = "save_files"
  /\ UNCHANGED <<raised, mainVars, snapVars, crawlVars, pureVars>>

\* line 150
SaveFiles ==
  /\ pc = "save_files"
  /\ \E lines \in Orderings(all_files) : WriteFile(FilesPath, lines, None, None)
  /\ pc' = "summary"
  /\ UNCHANGED <<raised, mainVars, snapVars, crawlVars, pureVars>>

\* one of the three save_to_file calls raises OSError
SaveRaises ==
  /\ pc \in {"snap_return", "crawl_return", "save_files"}
  /\ WriteRaises
  /\ UNCHANGED <<mainVars, snapVars, crawlVars, pureVars>>

\* lines 152-156: the summary is printed and main returns
Summary ==
  /\ pc = "summary"
  /\ pc' = "done"
  /\ UNCHANGED <<raised, mainVars, snapVars, fileVars, crawlVars, pureVars>>

Next ==
  \/ SnapStep
  \/ SaveSnapshots
  \/ CrawlStep
  \/ SaveLinks
  \/ SaveFiles
  \/ SaveRaises
  \/ Summary

Spec == Init /\ [][Next]_vars

\* the interpreter runs the next statement whenever there is one
FairSpec == Spec /\ WF_vars(Next)

(***************************************************************************)
(* Properties of crawl_website                                             *)
(***************************************************************************)
\* C1: whenever requests.get is issued for a URL, that URL is not in
\* visited at that moment, whatever the earlier outcomes and pages were.
NoFetchOfVisited == pc = "fetching" => url \notin visited

\* C1 witness: a fetch is issued in a depth whose frontier also holds a URL
\* that is already visited (it reappeared in a later frontier).
FetchBesideVisitedInFrontier ==
  /\ pc = "fetching"
  /\ to_visit \cap visited # {}

\* C5: a requests.get that ends in a status other than 200 or in a
\* RequestException leaves visited, all_links, all_files and next_to_visit
\* as they were, and the inner loop goes on with the URLs it has left.
FailedFetchChangesNothing ==
  [][(pc = "fetching" /\ resp' \in {"not200", "RequestException"})
       => /\ UNCHANGED <<visited, all_links, all_files, next_to_visit>>
          /\ pc' = "url_loop"
          /\ todo' = todo]_vars

\* C5 witness: after a failed fetch the crawl has issued the next fetch.
FetchAfterFailedFetch ==
  /\ pc = "fetching"
  /\ resp \in {"not200", "RequestException"}

\* C7: crawl_website always returns; when it returns the depth loop has
\* run exactly max_depth times; with max_depth = 0 nothing was fetched and
\* both returned sets are empty.
CrawlTerminatesAfterMaxDepth ==
  /\ <>(pc = "crawl_return")
  /\ [](pc = "crawl_return" => depth = max_depth)
  /\ []((pc = "crawl_return" /\ max_depth = 0)
          => (resp = None /\ visited = {} /\ all_links = {} /\ all_files = {}))

\* C7 witness: the crawl returned after two or more depth iterations
\* although every fetch failed, so that the frontier was empty from the
\* second iteration on.
ReturnedAfterEmptyFrontier ==
  /\ pc = "crawl_return"
  /\ max_depth >= 2
  /\ resp \in {"not200", "RequestException"}
  /\ visited = {}

\* the links extract_links found in the page a visited URL was served
LinksOfVisited(v) == extract_links(v, body[v])

\* the URLs at most k links away from the seed through visited pages
RECURSIVE ReachWithin(_)
ReachWithin(k) ==
  IF k = 0 THEN {base_url}
  ELSE ReachWithin(k - 1)
         \cup UNION { LinksOfVisited(v) : v \in ReachWithin(k - 1) \cap visited }

\* C10: a URL fetched in depth iteration k >= 2 is a link of a page fetched
\* with status 200 in iteration k - 1; visited is within {seed} \cup
\* all_links; a visited URL other than the seed is fewer than max_depth
\* links away from the seed through visited pages; on return all_links and
\* all_files are the unions of extract_links and extract_files over the
\* pages of visited.
BreadthFirstLevels ==
  /\ (pc = "fetching" /\ depth >= 2)
       => \E v \in visited : level[v] = depth - 1 /\ url \in LinksOfVisited(v)
  /\ \A u \in visited :
       level[u] >= 2
         => \E v \in visited : level[v] = level[u] - 1 /\ u \in LinksOfVisited(v)
  /\ visited \subseteq {base_url} \cup all_links
  /\ \A u \in visited \ {base_url} :
       max_depth >= 1 /\ u \in ReachWithin(max_depth - 1)
  /\ pc = "crawl_return"
       => /\ all_links = UNION { LinksOfVisited(v) : v \in visited }
          /\ all_files = UNION { extract_files(v, body[v]) : v \in visited }

\* C10 witness: the crawl returned having fetched a page in its third depth
\* iteration.
ReturnedWithThirdLevelPage ==
  /\ pc = "crawl_return"
  /\ \E u \in visited : level[u] = 3

(***************************************************************************)
(* Properties of save_to_file                                              *)
(***************************************************************************)
\* the lines that pass both filters, each filter applying only when it
\* counts as given
KeptLines(lines, fin, fout, inGiven, outGiven) ==
  SelectSeq(lines, LAMBDA line :
    /\ inGiven => AnyKeywordIn(line, fin)
    /\ outGiven => ~AnyKeywordIn(line, fout))

NotNone(filter) == filter # None

\* C6 as stated: the file holds exactly the items that contain a filter_in
\* substring, when filter_in is given, and no filter_out substring, when
\* filter_out is given, joined by newlines, whatever it held before.
SaveKeepsGivenFilters ==
  pc = "saved"
    => fs[SavePath] = JoinLines(KeptLines(data, filter_in, filter_out,
                                          NotNone(filter_in), NotNone(filter_out)))

\* C6 amended: the same, where a filter that is None or the empty list
\* counts as not given.
SaveKeepsNonEmptyFilters ==
  pc = "saved"
    => fs[SavePath] = JoinLines(KeptLines(data, filter_in, filter_out,
                                          Truthy(filter_in), Truthy(filter_out)))

\* C6 witness: a file was written with both filters at work: one item
\* kept, one item that passes filter_in dropped by filter_out.
SavedWithBothFilters ==
  /\ pc = "saved"
  /\ Truthy(filter_in) /\ Truthy(filter_out)
  /\ \E i, j \in 1..Len(data) :
       /\ AnyKeywordIn(data[i], filter_in) /\ AnyKeywordIn(data[i], filter_out)
       /\ AnyKeywordIn(data[j], filter_in) /\ ~AnyKeywordIn(data[j], filter_out)
       /\ fs[SavePath] = data[j]

(***************************************************************************)
(* Properties of extract_files                                             *)
(***************************************************************************)
\* the attribute C3 reads: href when the element has one, else src
HrefElseSrc(e) == IF e.href # None THEN e.href ELSE e.src

\* C3's set: the file URLs of the a, img, script and link elements that
\* carry an href or, failing that, a src
FilesOfEitherAttribute(base, doc) ==
  { UrlJoin(base, HrefElseSrc(doc[i])) :
      i \in { j \in 1..Len(doc) :
                /\ doc[j].tag \in FileTags
                /\ HrefElseSrc(doc[j]) # None
                /\ IsFileUrl(UrlJoin(base, HrefElseSrc(doc[j]))) } }

\* C3: extract_files returns exactly the file URLs of the a, img, script
\* and link elements, each read under its href or, when it has none, under
\* its src; an element with only one of the two attributes is considered.
ExtractFilesReadsEitherAttribute ==
  pc = "extracted" => found = FilesOfEitherAttribute(base_url, html)

(***************************************************************************)
(* Properties of get_wayback_snapshots                                     *)
(***************************************************************************)
Min(a, b) == IF a <= b THEN a ELSE b

\* C4: the returned list never has more than max_snapshots items, and when
\* no error occurred it is the prefix of the archive's sequence of length
\* min(max_snapshots, |archive|), for every max_snapshots >= 0.
SnapshotsArePrefixUpToMax ==
  pc = "snap_return"
    => /\ Len(snapshots) <= max_snapshots
       /\ raised = None
            => snapshots = SubSeq(archive, 1, Min(max_snapshots, Len(archive)))

(***************************************************************************)
(* Properties of main                                                      *)
(***************************************************************************)
\* C8: an error of the archive collaborator, raised when the lookup is
\* created or while its results are iterated, is caught: the run does not
\* crash on it and get_wayback_snapshots returns what it collected before.
ArchiveErrorNeverFatal ==
  /\ raised \in {"ArchiveError", "ArchiveErrorCaught"} => pc # "crashed"
  /\ (pc = "snap_return" /\ raised # None) => snapshots = SubSeq(archive, 1, yielded)

\* C9: every run in which no file write fails reaches the end of main with
\* the three files written in the order wayback_snapshots.txt, links.txt,
\* files.txt.
PipelineAlwaysCompletes ==
  <>(\/ pc = "done" /\ written = <<SnapshotsPath, LinksPath, FilesPath>>
     \/ raised = "OSError")

\* C2: with max_depth = 1 and the seed served, with status 200, the page of
\* the two anchors https://a.com/1 and https://fb.com/2 and the image
\* https://a.com/img.png, links.txt holds only https://a.com/1 and
\* files.txt holds https://a.com/img.png.
SeedPageEndToEnd ==
  (/\ pc = "done"
   /\ max_depth = 1
   /\ base_url \in visited
   /\ body[base_url] = PageAbs)
    => /\ fs[LinksPath] = "https://a.com/1"
       /\ "https://a.com/img.png" \in LinesOf(fs[FilesPath])

=============================================================================
